---- MODULE Spec2Model ----
(***************************************************************************)
(* Model of scripts/collect_dialogue.py: DialogueCollector.collect and its *)
(* nested helpers generate_config_stream and collect_single, and           *)
(* DialogueCollector.save.                                                 *)
(*                                                                         *)
(* Strings are sequences of one-character strings.  A dict is a function   *)
(* from its keys to its values.  The output file is a record: whether it   *)
(* exists, whether the last write of it ran to its end (closed), and the   *)
(* Dialogue Records whose text has reached it.                             *)
(***************************************************************************)
EXTENDS Integers, Sequences, FiniteSets, TLC

VARIABLES
    cfg,            \* self.cfg: the loaded configuration
    opt_ask,        \* self.opt.ask
    reply,          \* what input() returns at the confirmation prompt
    pc,             \* position of the process in collect / collect_single / save
    stream,         \* the list returned by generate_config_stream()
    ci,             \* 1-based index of cfgs in the outer for loop
    di,             \* number of finished iterations of the max_num_dialogues loop
    ti,             \* number of finished iterations of the max_num_turns loop
    ret,            \* collect_single: the record under construction
    prompt_pat,     \* collect_single: the patient transcript
    prompt_the,     \* collect_single: the therapist transcript
    prompt,         \* collect_single: the prompt of the last request
    response_pat,   \* collect_single: the patient utterance of this turn
    dialogues,      \* self.dialogues, the Result Set in memory
    file,           \* the output file output_dir / cfg.fnames.output
    file0,          \* the output file as it was when the process started
    nreq,           \* number of completion requests issued
    nsave,          \* number of calls of save()
    s_in,           \* normalization: the persona text given
    s_once,         \* normalization: the text normalized once
    s_twice,        \* normalization: the text normalized twice
    npc             \* normalization: position

vars == << cfg, opt_ask, reply, pc, stream, ci, di, ti, ret, prompt_pat,
           prompt_the, prompt, response_pat, dialogues, file, file0, nreq,
           nsave, s_in, s_once, s_twice, npc >>

runVars == << pc, stream, ci, di, ti, ret, prompt_pat, prompt_the, prompt,
              response_pat, dialogues, file, nreq, nsave >>

normVars == << s_in, s_once, s_twice, npc >>

-----------------------------------------------------------------------------
(* Bounds *)

MaxList == 3        \* longest params / persona list of a run
MaxConditions == 6  \* most Conditions of a run
MaxTurns == 2       \* largest dialogue.max_num_turns
MaxDialogues == 2   \* largest dialogue.max_num_dialogues
MaxLen == 4         \* longest persona text given to the normalization
MaxCfgSets == 2     \* longest params list of the expansion specification
MaxCfgPersonas == 2 \* longest persona list of the expansion specification

-----------------------------------------------------------------------------
(* Strings *)

\* the characters str.strip() removes that the model's alphabet contains
Whitespace == {" ", "\t", "\n", "\r"}

\* a variant of RemoveNewlines: str.replace("\n", "", 1), the first only
RECURSIVE RemoveFirstNewline(_)
RemoveFirstNewline(s) ==
    IF s = << >> THEN << >>
    ELSE IF Head(s) = "\n" THEN Tail(s)
    ELSE << Head(s) >> \o RemoveFirstNewline(Tail(s))

\* str.replace("\n", "")
RemoveNewlines(s) == SelectSeq(s, LAMBDA c : c # "\n")

RECURSIVE LStrip(_)
LStrip(s) ==
    IF s = << >> THEN << >>
    ELSE IF Head(s) \in Whitespace THEN LStrip(Tail(s))
    ELSE s

RECURSIVE RStrip(_)
RStrip(s) ==
    IF s = << >> THEN << >>
    ELSE IF s[Len(s)] \in Whitespace THEN RStrip(SubSeq(s, 1, Len(s) - 1))
    ELSE s

\* str.strip()
Strip(s) == RStrip(LStrip(s))

\* str.lower() on the replies the operator may type
Lower(s) == [i \in 1..Len(s) |-> IF s[i] = "Y" THEN "y"
                                  ELSE IF s[i] = "E" THEN "e"
                                  ELSE IF s[i] = "S" THEN "s"
                                  ELSE IF s[i] = "N" THEN "n"
                                  ELSE s[i]]

\* persona.text.replace("\n", "").strip()
NormalizePersona(text) == Strip(RemoveNewlines(text))

\* str(n) for n >= 0
RECURSIVE ToStr(_)
ToStr(n) ==
    LET d == <<"0", "1", "2", "3", "4", "5", "6", "7", "8", "9">>[(n % 10) + 1]
    IN  IF n < 10 THEN << d >> ELSE ToStr(n \div 10) \o << d >>

-----------------------------------------------------------------------------
(* Dicts *)

EmptyDict == [k \in {} |-> 0]

\* a variant of Merge: {**b, **a}, a's value where both have the key
MergeFirstWins(a, b) ==
    [k \in (DOMAIN a) \cup (DOMAIN b) |-> IF k \in DOMAIN a THEN a[k] ELSE b[k]]

\* {**a, **b}: the keys of both, b's value where b has the key
Merge(a, b) ==
    [k \in (DOMAIN a) \cup (DOMAIN b) |-> IF k \in DOMAIN b THEN b[k] ELSE a[k]]

-----------------------------------------------------------------------------
(* generate_config_stream *)

\* one more loop level: every tuple of ts, in order, extended by every
\* element of L, in order
RECURSIVE Extend(_, _)
Extend(ts, L) ==
    IF ts = << >> THEN << >>
    ELSE [i \in 1..Len(L) |-> Append(Head(ts), L[i])] \o Extend(Tail(ts), L)

\* a variant of Product4: zip(A, B, C, D), the lists walked in step
Product4Zip(A, B, C, D) ==
    LET n == CHOOSE k \in 0..Len(A) :
                 /\ k <= Len(B) /\ k <= Len(C) /\ k <= Len(D)
                 /\ (k = Len(A) \/ k = Len(B) \/ k = Len(C) \/ k = Len(D))
    IN  [i \in 1..n |-> << A[i], B[i], C[i], D[i] >>]

\* itertools.product(A, B, C, D) as a list: nested loops, A outermost
Product4(A, B, C, D) ==
    Extend(Extend(Extend(Extend(<< << >> >>, A), B), C), D)

\* the body of the for loop: one tuple appended to ret
MakeCondition(params_shared, t) ==
    << Merge(params_shared, t[1]),
       Merge(params_shared, t[2]),
       NormalizePersona(t[3].text),
       NormalizePersona(t[4].text) >>

generate_config_stream(c) ==
    LET combos == Product4(c.params.therapist, c.params.patient,
                           c.persona.therapist, c.persona.patient)
    IN  [i \in 1..Len(combos) |-> MakeCondition(c.params.shared, combos[i])]

-----------------------------------------------------------------------------
(* The configurations and the environment of a run *)

\* the i-th entry of params.therapist, params.patient
TherapistParams(i) == ("temperature" :> i)
PatientParams(i) == ("temperature" :> (10 + i) @@ "top_p" :> 1)

\* the i-th entry of persona.therapist, persona.patient, as the file gives it
TherapistPersona(i) == [text |-> << " ", "T" >> \o ToStr(i) \o << "\n" >>]
PatientPersona(i) == [text |-> << "P", "\n" >> \o ToStr(i) \o << " " >>]

SharedParams == { EmptyDict, ("temperature" :> 0 @@ "max_tokens" :> 64) }

\* the lengths of the four lists of a run
ListLengths ==
    { l \in (0..MaxList) \X (0..MaxList) \X (0..MaxList) \X (0..MaxList) :
        l[1] * l[2] * l[3] * l[4] <= MaxConditions }

RunConfigs ==
    { [params   |-> [shared    |-> sh,
                     therapist |-> [i \in 1..l[1] |-> TherapistParams(i)],
                     patient   |-> [i \in 1..l[2] |-> PatientParams(i)]],
       persona  |-> [therapist |-> [i \in 1..l[3] |-> TherapistPersona(i)],
                     patient   |-> [i \in 1..l[4] |-> PatientPersona(i)]],
       dialogue |-> [max_num_turns |-> n, max_num_dialogues |-> d]] :
         sh \in SharedParams, l \in ListLengths,
         n \in 0..MaxTurns, d \in 0..MaxDialogues }

\* what the operator may type at the prompt
Replies == { << "y" >>, << "Y" >>, << "n" >>, << "y", "e", "s" >>, << >> }

\* the texts the completion service may return to the n-th request
Completion(n) == { << "u" >> \o ToStr(n),
                   << " ", "u" >> \o ToStr(n) \o << "\n" >> }

NoRecord == [meta |-> EmptyDict, dialogue |-> << >>]

AbsentFile == [exists |-> FALSE, closed |-> FALSE, recs |-> << >>]

\* a file left by an earlier run
StaleFile == [exists |-> TRUE, closed |-> TRUE,
              recs |-> << [meta |-> EmptyDict,
                           dialogue |-> << [role |-> "patient",
                                            text |-> << "o", "l", "d" >>] >>] >>]

NormIdle ==
    /\ s_in = << >>
    /\ s_once = << >>
    /\ s_twice = << >>
    /\ npc = "idle"

\* DialogueCollector.__init__: dialogues empty, configuration loaded
RunStart ==
    /\ pc = "start"
    /\ stream = << >>
    /\ ci = 0
    /\ di = 0
    /\ ti = 0
    /\ ret = NoRecord
    /\ prompt_pat = << >>
    /\ prompt_the = << >>
    /\ prompt = << >>
    /\ response_pat = << >>
    /\ dialogues = << >>
    /\ file = file0
    /\ nreq = 0
    /\ nsave = 0

Init ==
    /\ cfg \in RunConfigs
    /\ opt_ask \in BOOLEAN
    /\ reply \in (IF opt_ask THEN Replies ELSE { << >> })
    /\ file0 \in { AbsentFile, StaleFile }
    /\ RunStart
    /\ NormIdle

-----------------------------------------------------------------------------
(* DialogueCollector.collect *)

\* a variant of Declines: only the reply n aborts
DeclinesOnlyOnN == opt_ask /\ Lower(reply) = << "n" >>

\* if self.opt.ask: ... input().lower() != "y"
Declines == opt_ask /\ Lower(reply) # << "y" >>

\* the operator declines: return self
Decline ==
    /\ pc = "start"
    /\ Declines
    /\ pc' = "returned"
    /\ UNCHANGED << cfg, opt_ask, reply, file0, normVars, stream, ci, di, ti,
                    ret, prompt_pat, prompt_the, prompt, response_pat,
                    dialogues, file, nreq, nsave >>

\* for cfgs in generate_config_stream(): the list is built once
Proceed ==
    /\ pc = "start"
    /\ ~Declines
    /\ stream' = generate_config_stream(cfg)
    /\ ci' = 1
    /\ pc' = "for_cfgs"
    /\ UNCHANGED << cfg, opt_ask, reply, file0, normVars, di, ti, ret,
                    prompt_pat, prompt_the, prompt, response_pat, dialogues,
                    file, nreq, nsave >>

\* the outer loop takes its next element
NextCondition ==
    /\ pc = "for_cfgs"
    /\ ci <= Len(stream)
    /\ di' = 0
    /\ pc' = "for_dialogues"
    /\ UNCHANGED << cfg, opt_ask, reply, file0, normVars, stream, ci, ti, ret,
                    prompt_pat, prompt_the, prompt, response_pat, dialogues,
                    file, nreq, nsave >>

\* the outer loop is exhausted: return self
Return ==
    /\ pc = "for_cfgs"
    /\ ci > Len(stream)
    /\ pc' = "returned"
    /\ UNCHANGED << cfg, opt_ask, reply, file0, normVars, stream, ci, di, ti,
                    ret, prompt_pat, prompt_the, prompt, response_pat,
                    dialogues, file, nreq, nsave >>

\* a variant of EnterCollectSingle: the transcripts are seeded for the first
\* dialogue of a Condition only and carried on by the later ones
EnterCollectSingleKeepsTranscripts ==
    /\ pc = "for_dialogues"
    /\ di < cfg.dialogue.max_num_dialogues
    /\ LET cfgs == stream[ci]
       IN  /\ ret' = [meta |-> [params_therapist  |-> cfgs[1],
                                params_patient    |-> cfgs[2],
                                persona_therapist |-> cfgs[3],
                                persona_patient   |-> cfgs[4]],
                      dialogue |-> << >>]
           /\ prompt_pat' = (IF di = 0 THEN cfgs[4] ELSE prompt_pat)
           /\ prompt_the' = (IF di = 0 THEN cfgs[3] ELSE prompt_the)
    /\ prompt' = << >>
    /\ response_pat' = << >>
    /\ ti' = 0
    /\ pc' = "for_turns"
    /\ UNCHANGED << cfg, opt_ask, reply, file0, normVars, stream, ci, di,
                    dialogues, file, nreq, nsave >>

\* a variant of EnterCollectSingle: every dialogue is set up from the first
\* element of the stream
EnterCollectSingleFirstCfgs ==
    /\ pc = "for_dialogues"
    /\ di < cfg.dialogue.max_num_dialogues
    /\ LET cfgs == stream[1]
       IN  /\ ret' = [meta |-> [params_therapist  |-> cfgs[1],
                                params_patient    |-> cfgs[2],
                                persona_therapist |-> cfgs[3],
                                persona_patient   |-> cfgs[4]],
                      dialogue |-> << >>]
           /\ prompt_pat' = cfgs[4]
           /\ prompt_the' = cfgs[3]
    /\ prompt' = << >>
    /\ response_pat' = << >>
    /\ ti' = 0
    /\ pc' = "for_turns"
    /\ UNCHANGED << cfg, opt_ask, reply, file0, normVars, stream, ci, di,
                    dialogues, file, nreq, nsave >>

\* collect_single(cfgs) is entered: ret, prompt_pat, prompt_the are set up
EnterCollectSingle ==
    /\ pc = "for_dialogues"
    /\ di < cfg.dialogue.max_num_dialogues
    /\ LET cfgs == stream[ci]
       IN  /\ ret' = [meta |-> [params_therapist  |-> cfgs[1],
                                params_patient    |-> cfgs[2],
                                persona_therapist |-> cfgs[3],
                                persona_patient   |-> cfgs[4]],
                      dialogue |-> << >>]
           /\ prompt_pat' = cfgs[4]
           /\ prompt_the' = cfgs[3]
    /\ prompt' = << >>
    /\ response_pat' = << >>
    /\ ti' = 0
    /\ pc' = "for_turns"
    /\ UNCHANGED << cfg, opt_ask, reply, file0, normVars, stream, ci, di,
                    dialogues, file, nreq, nsave >>

\* the patient's request of a turn succeeds
PatientRequest ==
    /\ pc = "for_turns"
    /\ ti < cfg.dialogue.max_num_turns
    /\ prompt' = prompt_pat \o << "\n", "Y", "o", "u", ":" >>
    /\ nreq' = nreq + 1
    /\ \E raw \in Completion(nreq + 1) : response_pat' = Strip(raw)
    /\ pc' = "therapist"
    /\ UNCHANGED << cfg, opt_ask, reply, file0, normVars, stream, ci, di, ti,
                    ret, prompt_pat, prompt_the, dialogues, file, nsave >>

\* a variant of PatientRequestFails: the record under construction is kept
\* in the Result Set when the request raises
PatientRequestFailsKeepsPartial ==
    /\ pc = "for_turns"
    /\ ti < cfg.dialogue.max_num_turns
    /\ prompt' = prompt_pat \o << "\n", "Y", "o", "u", ":" >>
    /\ nreq' = nreq + 1
    /\ dialogues' = Append(dialogues, ret)
    /\ pc' = "failed"
    /\ UNCHANGED << cfg, opt_ask, reply, file0, normVars, stream, ci, di, ti,
                    ret, prompt_pat, prompt_the, response_pat, file, nsave >>

\* the patient's request raises: the exception leaves collect
PatientRequestFails ==
    /\ pc = "for_turns"
    /\ ti < cfg.dialogue.max_num_turns
    /\ prompt' = prompt_pat \o << "\n", "Y", "o", "u", ":" >>
    /\ nreq' = nreq + 1
    /\ pc' = "failed"
    /\ UNCHANGED << cfg, opt_ask, reply, file0, normVars, stream, ci, di, ti,
                    ret, prompt_pat, prompt_the, response_pat, dialogues,
                    file, nsave >>

\* a variant of TherapistRequest: the therapist transcript is continued from
\* the patient transcript
TherapistRequestCrossesTranscripts ==
    /\ pc = "therapist"
    /\ prompt' = prompt_the \o << "\n", "M", "e", ":", " " >> \o response_pat
                            \o << "\n", "H", "a", "l", ":" >>
    /\ nreq' = nreq + 1
    /\ \E raw \in Completion(nreq + 1) :
         LET response_the == Strip(raw)
         IN  /\ prompt_pat' = prompt_pat
                     \o << "\n", "Y", "o", "u", ":", " " >> \o response_pat
                     \o << "\n", "H", "a", "l", ":", " " >> \o response_the
             /\ prompt_the' = prompt_pat
                     \o << "\n", "M", "e", ":", " " >> \o response_pat
                     \o << "\n", "H", "a", "l", ":", " " >> \o response_the
             /\ ret' = [ret EXCEPT !.dialogue = @ \o
                          << [role |-> "patient", text |-> response_pat],
                             [role |-> "therapist", text |-> response_the] >>]
    /\ ti' = ti + 1
    /\ pc' = "for_turns"
    /\ UNCHANGED << cfg, opt_ask, reply, file0, normVars, stream, ci, di,
                    response_pat, dialogues, file, nsave >>

\* a variant of TherapistRequest: the two turns are recorded therapist first
TherapistRequestSwapsTurns ==
    /\ pc = "therapist"
    /\ prompt' = prompt_the \o << "\n", "M", "e", ":", " " >> \o response_pat
                            \o << "\n", "H", "a", "l", ":" >>
    /\ nreq' = nreq + 1
    /\ \E raw \in Completion(nreq + 1) :
         LET response_the == Strip(raw)
         IN  /\ prompt_pat' = prompt_pat
                     \o << "\n", "Y", "o", "u", ":", " " >> \o response_pat
                     \o << "\n", "H", "a", "l", ":", " " >> \o response_the
             /\ prompt_the' = prompt_the
                     \o << "\n", "M", "e", ":", " " >> \o response_pat
                     \o << "\n", "H", "a", "l", ":", " " >> \o response_the
             /\ ret' = [ret EXCEPT !.dialogue = @ \o
                          << [role |-> "therapist", text |-> response_the],
                             [role |-> "patient", text |-> response_pat] >>]
    /\ ti' = ti + 1
    /\ pc' = "for_turns"
    /\ UNCHANGED << cfg, opt_ask, reply, file0, normVars, stream, ci, di,
                    response_pat, dialogues, file, nsave >>

\* the therapist's request succeeds; the rest of the loop body follows
TherapistRequest ==
    /\ pc = "therapist"
    /\ prompt' = prompt_the \o << "\n", "M", "e", ":", " " >> \o response_pat
                            \o << "\n", "H", "a", "l", ":" >>
    /\ nreq' = nreq + 1
    /\ \E raw \in Completion(nreq + 1) :
         LET response_the == Strip(raw)
         IN  /\ prompt_pat' = prompt_pat
                     \o << "\n", "Y", "o", "u", ":", " " >> \o response_pat
                     \o << "\n", "H", "a", "l", ":", " " >> \o response_the
             /\ prompt_the' = prompt_the
                     \o << "\n", "M", "e", ":", " " >> \o response_pat
                     \o << "\n", "H", "a", "l", ":", " " >> \o response_the
             /\ ret' = [ret EXCEPT !.dialogue = @ \o
                          << [role |-> "patient", text |-> response_pat],
                             [role |-> "therapist", text |-> response_the] >>]
    /\ ti' = ti + 1
    /\ pc' = "for_turns"
    /\ UNCHANGED << cfg, opt_ask, reply, file0, normVars, stream, ci, di,
                    response_pat, dialogues, file, nsave >>

\* the therapist's request raises
TherapistRequestFails ==
    /\ pc = "therapist"
    /\ prompt' = prompt_the \o << "\n", "M", "e", ":", " " >> \o response_pat
                            \o << "\n", "H", "a", "l", ":" >>
    /\ nreq' = nreq + 1
    /\ pc' = "failed"
    /\ UNCHANGED << cfg, opt_ask, reply, file0, normVars, stream, ci, di, ti,
                    ret, prompt_pat, prompt_the, response_pat, dialogues,
                    file, nsave >>

\* a variant of AppendDialogue: self.dialogues = [collect_single(cfgs)]
AppendDialogueReplaces ==
    /\ pc = "for_turns"
    /\ ti >= cfg.dialogue.max_num_turns
    /\ dialogues' = << ret >>
    /\ di' = di + 1
    /\ pc' = "for_dialogues"
    /\ UNCHANGED << cfg, opt_ask, reply, file0, normVars, stream, ci, ti, ret,
                    prompt_pat, prompt_the, prompt, response_pat, file, nreq,
                    nsave >>

\* collect_single returns ret; self.dialogues.append(...)
AppendDialogue ==
    /\ pc = "for_turns"
    /\ ti >= cfg.dialogue.max_num_turns
    /\ dialogues' = Append(dialogues, ret)
    /\ di' = di + 1
    /\ pc' = "for_dialogues"
    /\ UNCHANGED << cfg, opt_ask, reply, file0, normVars, stream, ci, ti, ret,
                    prompt_pat, prompt_the, prompt, response_pat, file, nreq,
                    nsave >>

-----------------------------------------------------------------------------
(* DialogueCollector.save *)

\* a variant of SaveOpen: save() is called after the last Condition only;
\* after any other the outer loop advances with the file untouched
SaveOpenAtEndOnly ==
    /\ pc = "for_dialogues"
    /\ di >= cfg.dialogue.max_num_dialogues
    /\ IF ci = Len(stream)
       THEN /\ file' = [exists |-> TRUE, closed |-> FALSE, recs |-> << >>]
            /\ nsave' = nsave + 1
            /\ pc' = "dump"
            /\ ci' = ci
       ELSE /\ ci' = ci + 1
            /\ pc' = "for_cfgs"
            /\ UNCHANGED << file, nsave >>
    /\ UNCHANGED << cfg, opt_ask, reply, file0, normVars, stream, di, ti,
                    ret, prompt_pat, prompt_the, prompt, response_pat,
                    dialogues, nreq >>

\* the inner loop is exhausted; save() makes the directory and opens the
\* file with mode "w", which creates or truncates it
SaveOpen ==
    /\ pc = "for_dialogues"
    /\ di >= cfg.dialogue.max_num_dialogues
    /\ file' = [exists |-> TRUE, closed |-> FALSE, recs |-> << >>]
    /\ nsave' = nsave + 1
    /\ pc' = "dump"
    /\ UNCHANGED << cfg, opt_ask, reply, file0, normVars, stream, ci, di, ti,
                    ret, prompt_pat, prompt_the, prompt, response_pat,
                    dialogues, nreq >>

\* json.dump: the text of the next record reaches the file
SaveDump ==
    /\ pc = "dump"
    /\ Len(file.recs) < Len(dialogues)
    /\ file' = [file EXCEPT !.recs = Append(@, dialogues[Len(@) + 1])]
    /\ UNCHANGED << cfg, opt_ask, reply, file0, normVars, pc, stream, ci, di,
                    ti, ret, prompt_pat, prompt_the, prompt, response_pat,
                    dialogues, nreq, nsave >>

\* the end of the text is written and the with block closes the file;
\* save() returns and the outer loop advances
SaveClose ==
    /\ pc = "dump"
    /\ Len(file.recs) = Len(dialogues)
    /\ file' = [file EXCEPT !.closed = TRUE]
    /\ ci' = ci + 1
    /\ pc' = "for_cfgs"
    /\ UNCHANGED << cfg, opt_ask, reply, file0, normVars, stream, di, ti, ret,
                    prompt_pat, prompt_the, prompt, response_pat, dialogues,
                    nreq, nsave >>

Next ==
    \/ Decline
    \/ Proceed
    \/ NextCondition
    \/ Return
    \/ EnterCollectSingle
    \/ PatientRequest
    \/ PatientRequestFails
    \/ TherapistRequest
    \/ TherapistRequestFails
    \/ AppendDialogue
    \/ SaveOpen
    \/ SaveDump
    \/ SaveClose

Spec == Init /\ [][Next]_vars

-----------------------------------------------------------------------------
(* Expansion of arbitrary parameter grids: generate_config_stream alone *)

ParamKeys == { "temperature", "top_p" }

\* the dicts over some of the keys, every key set to v
DictsOf(v) == UNION { [K -> { v }] : K \in SUBSET ParamKeys }

SeqsUpTo(S, n) == UNION { [1..k -> S] : k \in 0..n }

SharedValue == 0
TherapistValue == 1
PatientValue == 2

ExpansionConfigs ==
    { [params   |-> [shared |-> sh, therapist |-> ts, patient |-> ps],
       persona  |-> [therapist |-> [i \in 1..mt |-> TherapistPersona(i)],
                     patient   |-> [i \in 1..mp |-> PatientPersona(i)]],
       dialogue |-> [max_num_turns |-> 1, max_num_dialogues |-> 1]] :
         sh \in DictsOf(SharedValue),
         ts \in SeqsUpTo(DictsOf(TherapistValue), MaxCfgSets),
         ps \in SeqsUpTo(DictsOf(PatientValue), MaxCfgSets),
         mt \in 0..MaxCfgPersonas, mp \in 0..MaxCfgPersonas }

InitCfg ==
    /\ cfg \in ExpansionConfigs
    /\ opt_ask = FALSE
    /\ reply = << >>
    /\ file0 = AbsentFile
    /\ RunStart
    /\ NormIdle

NextCfg == Proceed

SpecCfg == InitCfg /\ [][NextCfg]_vars

-----------------------------------------------------------------------------
(* Persona normalization applied to arbitrary texts, once and again *)

Chars == { "a", "b", " ", "\n", "\t" }

InitNorm ==
    /\ cfg = [params   |-> [shared |-> EmptyDict, therapist |-> << >>,
                            patient |-> << >>],
              persona  |-> [therapist |-> << >>, patient |-> << >>],
              dialogue |-> [max_num_turns |-> 0, max_num_dialogues |-> 0]]
    /\ opt_ask = FALSE
    /\ reply = << >>
    /\ file0 = AbsentFile
    /\ RunStart
    /\ s_in \in SeqsUpTo(Chars, MaxLen)
    /\ s_once = << >>
    /\ s_twice = << >>
    /\ npc = "given"

NormalizeOnce ==
    /\ npc = "given"
    /\ s_once' = NormalizePersona(s_in)
    /\ npc' = "once"
    /\ UNCHANGED << cfg, opt_ask, reply, file0, runVars, s_in, s_twice >>

NormalizeAgain ==
    /\ npc = "once"
    /\ s_twice' = NormalizePersona(s_once)
    /\ npc' = "twice"
    /\ UNCHANGED << cfg, opt_ask, reply, file0, runVars, s_in, s_once >>

NextNorm == NormalizeOnce \/ NormalizeAgain

SpecNorm == InitNorm /\ [][NextNorm]_vars

-----------------------------------------------------------------------------
(* Vocabulary of the properties *)

NumTurns == cfg.dialogue.max_num_turns
NumDialogues == cfg.dialogue.max_num_dialogues

\* the operator was asked and typed something other than y or Y
Declined == opt_ask /\ reply \notin { << "y" >>, << "Y" >> }

\* the meta a Dialogue Record of Condition c carries
MetaOf(c) == [params_therapist  |-> c[1],
              params_patient    |-> c[2],
              persona_therapist |-> c[3],
              persona_patient   |-> c[4]]

\* the Condition the i-th Dialogue Record of a run belongs to
ConditionOfRecord(i) == ((i - 1) \div NumDialogues) + 1

\* recs is the Dialogue Records of Conditions 1..k, in order, and no other
IsRecordsOfConditions(recs, k) ==
    /\ Len(recs) = k * NumDialogues
    /\ \A i \in 1..Len(recs) :
         /\ recs[i] = dialogues[i]
         /\ recs[i].meta = MetaOf(stream[ConditionOfRecord(i)])

\* the Dialogue Records this run has put in the output file
Persisted == IF file = file0 THEN << >> ELSE file.recs

\* 2 * max_num_turns turns, patient at the odd places, therapist at the even
Alternates(rec) ==
    /\ Len(rec.dialogue) = 2 * NumTurns
    /\ \A i \in 1..Len(rec.dialogue) :
         rec.dialogue[i].role = (IF i % 2 = 1 THEN "patient" ELSE "therapist")

-----------------------------------------------------------------------------
(* C1 *)

\* C1, as stated: at every point of a run, with k the number of Conditions
\* whose save() has returned, the output file holds exactly the Dialogue
\* Records of Conditions 1..k, in order.
C1_CheckpointAtAnyPoint ==
    ci >= 1 => IsRecordsOfConditions(Persisted, ci - 1)

\* C1, amended: at every point of a run that is not inside a save() (between
\* the opening of the file and its closing), with k the number of Conditions
\* whose save() has returned: if k = 0 the output file is as it was before
\* the run, and if k > 0 it is a completely written file holding exactly the
\* Dialogue Records of Conditions 1..k, in order.
C1_CheckpointOutsideSave ==
    (ci >= 1 /\ pc # "dump") =>
        /\ IsRecordsOfConditions(Persisted, ci - 1)
        /\ ci = 1 => file = file0
        /\ ci > 1 => file.exists /\ file.closed

\* two Conditions are checkpointed and the third has a finished dialogue in
\* memory and a second one under way
C1_Witness ==
    /\ ci = 3
    /\ pc = "therapist"
    /\ NumDialogues = 2
    /\ Len(dialogues) = 5
    /\ Len(file.recs) = 4

-----------------------------------------------------------------------------
(* C2 *)

\* C2, as stated: when a request fails, every dialogue completed before the
\* failure is in the output file.
C2_AllCompletedPersisted ==
    pc = "failed" => Persisted = dialogues

\* C2, amended: when a request fails while a Condition is in progress, the
\* Dialogue Records missing from the output file are those of the
\* in-progress Condition, completed or not; every dialogue of the prior
\* Conditions is in the file, and the completed dialogues of the in-progress
\* Condition, fewer than max_num_dialogues, are in memory only.
C2_PriorConditionsPersisted ==
    pc = "failed" =>
        /\ IsRecordsOfConditions(Persisted, ci - 1)
        /\ Len(dialogues) = (ci - 1) * NumDialogues + di
        /\ di < NumDialogues
        /\ \A i \in (Len(Persisted) + 1)..Len(dialogues) :
             dialogues[i].meta = MetaOf(stream[ci])

\* a request fails in the second dialogue of the second Condition
C2_Witness ==
    /\ pc = "failed"
    /\ ci = 2
    /\ di = 1
    /\ Len(dialogues) = 3
    /\ Len(Persisted) = 2

-----------------------------------------------------------------------------
(* C3 *)

\* C3: the record collect_single returns, and so every record of the Result
\* Set, has exactly 2 * max_num_turns turns, the 1st, 3rd, ... of role
\* patient and the 2nd, 4th, ... of role therapist.
C3_TurnsAlternate ==
    /\ (pc = "for_turns" /\ ti >= NumTurns) => Alternates(ret)
    /\ \A i \in 1..Len(dialogues) : Alternates(dialogues[i])

\* collect_single is about to return a record of two full turns
C3_Witness ==
    /\ pc = "for_turns"
    /\ ti >= NumTurns
    /\ NumTurns = 2
    /\ Len(ret.dialogue) = 4

-----------------------------------------------------------------------------
(* C4 *)

\* C4: the list generate_config_stream returns has as many entries as the
\* product of the lengths of params.therapist, params.patient,
\* persona.therapist and persona.patient, whatever params.shared is.
C4_StreamLength ==
    pc = "for_cfgs" =>
        /\ Len(stream) = Len(cfg.params.therapist) * Len(cfg.params.patient)
                       * Len(cfg.persona.therapist) * Len(cfg.persona.patient)
        /\ \A sh \in DictsOf(SharedValue) :
             Len(generate_config_stream([cfg EXCEPT !.params.shared = sh]))
               = Len(stream)

\* a grid of 2 x 2 x 2 x 2 under shared params that set both keys
C4_Witness ==
    /\ pc = "for_cfgs"
    /\ Len(stream) = 16
    /\ DOMAIN cfg.params.shared = ParamKeys

-----------------------------------------------------------------------------
(* C5 *)

\* the entries of params.therapist and params.patient the i-th Condition
\* comes from, in product order
TherapistSetOf(i) ==
    cfg.params.therapist[
        ((i - 1) \div (Len(cfg.params.patient) * Len(cfg.persona.therapist)
                                               * Len(cfg.persona.patient))) + 1]

PatientSetOf(i) ==
    cfg.params.patient[
        (((i - 1) \div (Len(cfg.persona.therapist) * Len(cfg.persona.patient)))
            % Len(cfg.params.patient)) + 1]

\* eff has the keys of own and of params.shared and no other, own's value
\* for own's keys and the shared value for the rest
IsSharedOverriddenBy(eff, own) ==
    /\ DOMAIN eff = (DOMAIN own) \cup (DOMAIN cfg.params.shared)
    /\ \A k \in DOMAIN own : eff[k] = own[k]
    /\ \A k \in (DOMAIN cfg.params.shared) \ (DOMAIN own) :
         eff[k] = cfg.params.shared[k]

EffectiveParamsMerged ==
    \A i \in 1..Len(stream) :
        /\ IsSharedOverriddenBy(stream[i][1], TherapistSetOf(i))
        /\ IsSharedOverriddenBy(stream[i][2], PatientSetOf(i))

\* C5, as stated: each role's effective params are the shared params
\* overridden by the role's own set, and no key of one role's own set
\* appears in the other role's effective params.
C5_NoKeyOfOtherRole ==
    pc = "for_cfgs" =>
        /\ EffectiveParamsMerged
        /\ \A i \in 1..Len(stream) :
             /\ \A k \in DOMAIN TherapistSetOf(i) : k \notin DOMAIN stream[i][2]
             /\ \A k \in DOMAIN PatientSetOf(i) : k \notin DOMAIN stream[i][1]

\* C5, amended: each role's effective params are the shared params
\* overridden by the role's own set, and a key that only the other role's own
\* set has (neither params.shared nor the role's own set has it) does not
\* appear in the role's effective params; a key of the other role's set that
\* the role's set or params.shared has too appears with the role's own or
\* the shared value.
C5_EffectiveParams ==
    pc = "for_cfgs" =>
        /\ EffectiveParamsMerged
        /\ \A i \in 1..Len(stream) :
             LET the == TherapistSetOf(i)
                 pat == PatientSetOf(i)
                 sh  == cfg.params.shared
             IN  /\ \A k \in (DOMAIN the) \ ((DOMAIN sh) \cup (DOMAIN pat)) :
                       k \notin DOMAIN stream[i][2]
                 /\ \A k \in (DOMAIN pat) \ ((DOMAIN sh) \cup (DOMAIN the)) :
                       k \notin DOMAIN stream[i][1]
                 /\ \A k \in DOMAIN stream[i][2] :
                       stream[i][2][k] \in { PatientValue, SharedValue }
                 /\ \A k \in DOMAIN stream[i][1] :
                       stream[i][1][k] \in { TherapistValue, SharedValue }

\* shared sets temperature; the therapist overrides it and adds top_p; the
\* patient sets nothing of its own
C5_Witness ==
    /\ pc = "for_cfgs"
    /\ Len(stream) = 1
    /\ DOMAIN cfg.params.shared = { "temperature" }
    /\ DOMAIN cfg.params.therapist[1] = ParamKeys
    /\ DOMAIN cfg.params.patient[1] = { }
    /\ stream[1][1] = [k \in ParamKeys |-> TherapistValue]
    /\ stream[1][2] = [k \in { "temperature" } |-> SharedValue]

-----------------------------------------------------------------------------
(* C6 *)

\* C6: when collect returns without having been declined, the Result Set
\* has max_num_dialogues records for each Condition, those of a Condition
\* next to each other and the Conditions in their order, each record with
\* the meta of its Condition; the Conditions are as many as the product of
\* the lengths of the four lists.
C6_RecordsPerCondition ==
    (pc = "returned" /\ ~Declined) =>
        /\ Len(stream) = Len(cfg.params.therapist) * Len(cfg.params.patient)
                       * Len(cfg.persona.therapist) * Len(cfg.persona.patient)
        /\ Len(dialogues) = Len(stream) * NumDialogues
        /\ \A i \in 1..Len(dialogues) :
             dialogues[i].meta = MetaOf(stream[ConditionOfRecord(i)])

\* the example: 2 x 1 x 1 x 3 Conditions, one dialogue each, two turns
C6_Witness ==
    /\ pc = "returned"
    /\ Len(cfg.params.therapist) = 2
    /\ Len(cfg.params.patient) = 1
    /\ Len(cfg.persona.therapist) = 1
    /\ Len(cfg.persona.patient) = 3
    /\ NumDialogues = 1
    /\ NumTurns = 2
    /\ Len(dialogues) = 6
    /\ \A i \in 1..6 : Len(dialogues[i].dialogue) = 4

-----------------------------------------------------------------------------
(* C7 *)

\* C7: when the operator is asked and declines, collect does nothing but
\* return: it is at its start or has returned, it has raised nothing, issued
\* no request, built no condition stream, appended nothing, never called
\* save, and the output file is as it was.
C7_DeclineDoesNothing ==
    Declined =>
        /\ pc \in { "start", "returned" }
        /\ nreq = 0
        /\ stream = << >>
        /\ dialogues = << >>
        /\ nsave = 0
        /\ file = file0

\* the operator typed yes, which is not y, and collect has returned
C7_Witness ==
    /\ pc = "returned"
    /\ opt_ask
    /\ reply = << "y", "e", "s" >>
    /\ file = StaleFile

-----------------------------------------------------------------------------
(* C8 *)

\* what is true once a request has failed
FailedState ==
    /\ Len(dialogues) = (ci - 1) * NumDialogues + di
    /\ \A i \in 1..Len(dialogues) : Alternates(dialogues[i])
    /\ nsave = ci - 1
    /\ ci = 1 => file = file0
    /\ ci > 1 => file = [exists |-> TRUE, closed |-> TRUE,
                         recs |-> SubSeq(dialogues, 1, (ci - 1) * NumDialogues)]

\* C8: once a request has failed nothing more happens (no retry, no later
\* request, no later Condition, no save), the record under construction is
\* not in the Result Set, which holds finished dialogues only, and the output
\* file is as the save() of the last completed Condition left it (as it was
\* before the run when no Condition was completed).
C8_FailureAborts ==
    /\ [](pc = "failed" => FailedState)
    /\ [][pc = "failed" => UNCHANGED vars]_vars

\* the therapist's request fails in the second turn of a dialogue of the
\* second Condition: one finished turn is dropped
C8_Witness ==
    /\ pc = "failed"
    /\ ci = 2
    /\ NumDialogues >= 1
    /\ Len(ret.dialogue) = 2
    /\ NumTurns = 2
    /\ nreq = 2 * NumTurns * NumDialogues + 4

-----------------------------------------------------------------------------
(* C9 *)

\* C9: when collect returns without having been declined, the output file
\* exists, is completely written and holds the Result Set in memory.
C9_FinalFileHoldsResultSet ==
    (pc = "returned" /\ ~Declined) =>
        /\ file.exists
        /\ file.closed
        /\ file.recs = dialogues

-----------------------------------------------------------------------------
(* C10 *)

\* C10: normalizing a normalized persona text gives the same text, and a
\* normalized text has no newline and neither starts nor ends with
\* whitespace.
C10_NormalizeIdempotent ==
    /\ npc = "twice" => s_twice = s_once
    /\ npc \in { "once", "twice" } =>
         /\ \A i \in 1..Len(s_once) : s_once[i] # "\n"
         /\ s_once # << >> =>
              /\ s_once[1] \notin Whitespace
              /\ s_once[Len(s_once)] \notin Whitespace

\* a text with whitespace before and a newline between two letters
C10_Witness ==
    /\ npc = "twice"
    /\ s_in = << " ", "a", "\n", "b" >>
    /\ s_once = << "a", "b" >>

-----------------------------------------------------------------------------
(* C11 *)

YouCue == << "Y", "o", "u", ":" >>
MeCue == << "M", "e", ":" >>
HalCue == << "H", "a", "l", ":" >>

\* the text of one exchange under the cue given for the patient's utterance
Exchange(cue, p, t) ==
    << "\n" >> \o cue \o << " " >> \o p \o << "\n" >> \o HalCue \o << " " >> \o t

\* seed followed by the exchanges of the first n turns of the turn list
RECURSIVE Transcript(_, _, _, _)
Transcript(seed, cue, turns, n) ==
    IF n = 0 THEN seed
    ELSE Transcript(seed, cue, turns, n - 1)
            \o Exchange(cue, turns[2 * n - 1].text, turns[2 * n].text)

InCollectSingle == pc \in { "for_turns", "therapist" }

\* C11, as stated: after n turns of a dialogue the patient transcript and the
\* therapist transcript are each the own seed persona followed by the same n
\* exchanges "You: p / Hal: t".
C11_SameExchangeInBoth ==
    InCollectSingle =>
        /\ Len(ret.dialogue) = 2 * ti
        /\ prompt_pat = Transcript(stream[ci][4], YouCue, ret.dialogue, ti)
        /\ prompt_the = Transcript(stream[ci][3], YouCue, ret.dialogue, ti)

\* C11, amended: after n turns of a dialogue, with the utterances p and t of
\* each turn, the patient transcript is the patient persona followed by the n
\* exchanges "You: p / Hal: t" and the therapist transcript is the therapist
\* persona followed by the n exchanges "Me: p / Hal: t", every exchange
\* preceded by a newline: the same utterances in both, the patient's under
\* the cue "You:" in the one and "Me:" in the other.
C11_ExchangeInOwnVoice ==
    InCollectSingle =>
        /\ Len(ret.dialogue) = 2 * ti
        /\ prompt_pat = Transcript(stream[ci][4], YouCue, ret.dialogue, ti)
        /\ prompt_the = Transcript(stream[ci][3], MeCue, ret.dialogue, ti)

\* two turns of a dialogue are done
C11_Witness ==
    /\ pc = "for_turns"
    /\ ti = 2
    /\ Len(ret.dialogue) = 4
    /\ prompt_pat # prompt_the
    /\ Len(prompt_the) > Len(stream[ci][3]) + 20

-----------------------------------------------------------------------------
(* C12 *)

Digits == { "0", "1", "2", "3", "4", "5", "6", "7", "8", "9" }

DigitValue(c) ==
    CHOOSE v \in 0..9 :
        <<"0", "1", "2", "3", "4", "5", "6", "7", "8", "9">>[v + 1] = c

\* the number written in s from place i on, after the digits read as acc
RECURSIVE NumberAt(_, _, _)
NumberAt(s, i, acc) ==
    IF i <= Len(s) /\ s[i] \in Digits
    THEN NumberAt(s, i + 1, 10 * acc + DigitValue(s[i]))
    ELSE acc

\* the requests whose replies occur in the text s
UtterancesIn(s) ==
    { NumberAt(s, i + 1, 0) :
        i \in { j \in 1..(Len(s) - 1) : s[j] = "u" /\ s[j + 1] \in Digits } }

UtterancesOfTurns(turns) ==
    UNION { UtterancesIn(turns[k].text) : k \in 1..Len(turns) }

\* the utterances of the dialogues collected before the one under way
EarlierUtterances ==
    UNION { UtterancesOfTurns(dialogues[j].dialogue) : j \in 1..Len(dialogues) }

\* the utterances in the transcripts, the last prompt and the turn list of
\* the dialogue under way
CurrentUtterances ==
    UtterancesIn(prompt_pat) \cup UtterancesIn(prompt_the)
        \cup UtterancesIn(prompt) \cup UtterancesOfTurns(ret.dialogue)

\* the persona entries the Condition under way comes from, in product order
PatientPersonaOf(i) ==
    cfg.persona.patient[((i - 1) % Len(cfg.persona.patient)) + 1]

TherapistPersonaOf(i) ==
    cfg.persona.therapist[
        (((i - 1) \div Len(cfg.persona.patient)) % Len(cfg.persona.therapist)) + 1]

\* C12: every dialogue starts from the two normalized personas of its
\* Condition: the prompt of its first patient request is the patient persona
\* followed by a newline and "You:", the prompt of its first therapist
\* request is the therapist persona followed by the patient's utterance under
\* "Me:" and the cue "Hal:"; and no utterance of an earlier dialogue occurs
\* in a transcript, a prompt or the turn list of a later one.
C12_DialoguesIndependent ==
    (InCollectSingle \/ pc = "failed") =>
        LET persona_pat == NormalizePersona(PatientPersonaOf(ci).text)
            persona_the == NormalizePersona(TherapistPersonaOf(ci).text)
        IN  /\ (pc = "for_turns" /\ ti = 0) =>
                  /\ prompt_pat = persona_pat
                  /\ prompt_the = persona_the
            /\ (pc = "therapist" /\ ti = 0) =>
                  prompt = persona_pat \o << "\n" >> \o YouCue
            /\ (pc = "for_turns" /\ ti = 1) =>
                  prompt = persona_the \o << "\n" >> \o MeCue \o << " " >>
                               \o ret.dialogue[1].text \o << "\n" >> \o HalCue
            /\ CurrentUtterances \cap EarlierUtterances = { }

\* the second dialogue of the second Condition has sent its first therapist
\* request; three dialogues of two turns were collected before
C12_Witness ==
    /\ pc = "for_turns"
    /\ ti = 1
    /\ ci = 2
    /\ di = 1
    /\ NumTurns = 2
    /\ EarlierUtterances = 1..12
    /\ CurrentUtterances = { 13, 14 }

====
